---- MODULE Spec2Model ----
(***************************************************************************)
(* A model of src/data/Main.py: the record store (DatabaseManager), the    *)
(* page scraper (MarketplaceScraper), the threshold analyzer               *)
(* (AssetAnalyzer) and the scrape handler of the GUI (handle_scrape).      *)
(*                                                                         *)
(* Five specifications share the variables:                                *)
(*   SpecStore   DatabaseManager: insert_assets called by any caller       *)
(*   SpecPage    scrape_page called once on any page                       *)
(*   SpecRange   scrape_multiple_pages called with any range               *)
(*   SpecScrape  the program: handle_scrape, with the store behind it      *)
(*   SpecAnalyze identify_undervalued_assets called on a snapshot          *)
(* Numbers are integers; a quotient is kept as a pair num/den, so floating *)
(* point rounding is not modelled.  The date_added column is not modelled. *)
(* sqlite3, requests, BeautifulSoup and pandas are modelled by what their  *)
(* documentation says of the calls made.                                   *)
(***************************************************************************)
EXTENDS Integers, Sequences, FiniteSets, TLC

VARIABLES
    \* ---- DatabaseManager
    table,      \* rows of "assets" as this connection sees them (open transaction included)
    durable,    \* rows of "assets" as of the last commit
    call,       \* the last insert_assets call: its batch, what it returned, the rows before it
    accepted,   \* the rows of every batch insert_assets returned True for, in call order
    calls,      \* number of insert_assets calls made
    \* ---- MarketplaceScraper / handle_scrape
    pc,         \* position of the scrape run
    caller,     \* "gui" (handle_scrape) or "api" (scrape_multiple_pages called directly)
    range,      \* [start, end] of the run
    page_num,   \* loop variable of scrape_multiple_pages
    all_items,  \* accumulator of scrape_multiple_pages
    events,     \* what the run did, in order: fetches and sleeps
    last,       \* a scrape_page call: what was served, what it returned
    report,     \* how the run ended: the message box of handle_scrape, or returned/raised
    run,        \* bookkeeping of the run: rows at its start, insert_assets calls made
    runs,       \* number of runs started
    \* ---- AssetAnalyzer
    df,         \* the snapshot handed to identify_undervalued_assets
    df0,        \* the snapshot as it was constructed
    percentile, \* threshold_percentile
    sortKind,   \* how the sort behind sort_values treats equal keys
    results     \* what each call returned, in call order

storeVars == <<table, durable, call, accepted, calls>>
scrapeVars == <<pc, caller, range, page_num, all_items, events, last, report, run, runs>>
analyzeVars == <<df, df0, percentile, sortKind, results>>
vars == <<storeVars, scrapeVars, analyzeVars>>

\* ------------------------------------------------------------------ bounds

MaxBatch == 2
MaxCalls == 3
MaxPerPage == 2
MaxPage == 3
MaxRuns == 1
MaxRows == 5
MaxAnalyses == 2

RECURSIVE SeqsUpTo(_, _)
SeqsUpTo(S, n) ==
    IF n = 0 THEN {<<>>}
    ELSE LET shorter == SeqsUpTo(S, n - 1)
         IN  shorter \cup {Append(s, x) : s \in {t \in shorter : Len(t) = n - 1}, x \in S}

\* ------------------------------------------------------------ DatabaseManager

\* Python None bound to a column: SQL NULL.
Null == "<None>"
\* A str sqlite3 cannot encode as UTF-8 (a lone surrogate, "\ud800").
Surrogate == "<lone surrogate>"

\* The rows a caller hands to insert_assets: a good row, a row whose title is
\* None, a row whose title cannot be encoded.  The link tells the rows apart:
\* row i of call c.
RowKinds == {"ok", "nullTitle", "surrogateTitle"}

BatchRow(kind, c, i) ==
    [title |-> CASE kind = "nullTitle" -> Null
                 [] kind = "surrogateTitle" -> Surrogate
                 [] OTHER -> "Lamp",
     price |-> 10,
     link  |-> "/asset/" \o ToString(c) \o "-" \o ToString(i)]

Batch(kinds, c) == [i \in 1..Len(kinds) |-> BatchRow(kinds[i], c, i)]

\* Binding a row's parameters: a str that is not encodable raises
\* UnicodeEncodeError, which is no sqlite3.Error.
Encodable(row) == row.title # Surrogate /\ row.link # Surrogate

\* title, price and link are NOT NULL.  The price of every row modelled is a
\* number, so only the two text columns can hold NULL here.
ViolatesNotNull(row) == row.title = Null \/ row.link = Null

RECURSIVE MaxId(_)
MaxId(tbl) ==
    IF tbl = <<>> THEN 0
    ELSE LET m == MaxId(Tail(tbl)) IN IF Head(tbl).id > m THEN Head(tbl).id ELSE m

\* id INTEGER PRIMARY KEY: the rowid, one more than the largest in the table.
NextRowid(tbl) == MaxId(tbl) + 1

StoredRow(tbl, row) ==
    [id |-> NextRowid(tbl), title |-> row.title, price |-> row.price, link |-> row.link]

\* cursor.executemany: one INSERT per row, in order, inside one transaction;
\* stops at the first row that raises.
RECURSIVE ExecuteMany(_, _)
ExecuteMany(tbl, assets) ==
    IF assets = <<>> THEN [table |-> tbl, exc |-> "none"]
    ELSE LET row == Head(assets)
         IN  IF ~Encodable(row) THEN [table |-> tbl, exc |-> "UnicodeEncodeError"]
             ELSE IF ViolatesNotNull(row) THEN [table |-> tbl, exc |-> "IntegrityError"]
             ELSE ExecuteMany(Append(tbl, StoredRow(tbl, row)), Tail(assets))

\* The exceptions "except sqlite3.Error" catches.
IsSqliteError(exc) == exc \in {"IntegrityError", "OperationalError"}

\* insert_assets(assets): the value returned ("raised" when an exception leaves
\* the method), and the table and committed rows after it.  ioFail: the commit
\* fails with sqlite3.OperationalError (disk full, database locked).
InsertAssetsOutcome(tbl, dur, assets, ioFail) ==
    LET r == ExecuteMany(tbl, assets)
        exc == IF r.exc = "none" /\ ioFail THEN "OperationalError" ELSE r.exc
    IN  IF exc = "none" THEN [ret |-> "True", table |-> r.table, durable |-> r.table]
        ELSE IF IsSqliteError(exc) THEN [ret |-> "False", table |-> dur, durable |-> dur]
        ELSE [ret |-> "raised", table |-> r.table, durable |-> dur]

NoInsert == [batch |-> <<>>, ioFail |-> FALSE, ret |-> "none", before |-> <<>>]

InsertAssets(kinds, ioFail) ==
    /\ calls < MaxCalls
    /\ calls' = calls + 1
    /\ LET assets == Batch(kinds, calls + 1)
           o == InsertAssetsOutcome(table, durable, assets, ioFail)
       IN  /\ table' = o.table
           /\ durable' = o.durable
           /\ call' = [batch |-> assets, ioFail |-> ioFail, ret |-> o.ret, before |-> table]
           /\ accepted' = IF o.ret = "True" THEN accepted \o assets ELSE accepted
    /\ UNCHANGED <<scrapeVars, analyzeVars>>

\* get_all_assets: SELECT * FROM assets on the same connection.
GetAllAssets == table

\* ---------------------------------------------------------- MarketplaceScraper

base_url == "https://example-marketplace.com"
\* handle_scrape calls scrape_multiple_pages() with its defaults.
DefaultStartPage == 1
DefaultEndPage == 3
SleepSeconds == 1

\* A candidate block (div.item-class) of a served page.  An element or attribute
\* that may be missing is a sequence of length 0 or 1.  The price text is a
\* sequence of characters.
\*   h2    : <<>> | <<text>>
\*   price : <<>> | <<chars>>          span.price-class
\*   a     : <<>> | <<attrs>>          attrs: <<>> | <<href>>
CandidateKinds ==
    {"ok", "okGrouped", "noTitle", "placeholderTitle", "noPrice", "notANumber",
     "zeroPrice", "negativePrice", "noAnchor", "noHref", "emptyHref"}

PriceTextOf(kind) ==
    CASE kind = "okGrouped"     -> <<"$", "1", ",", "2", "5", "0">>
      [] kind = "notANumber"    -> <<"$", "c", "a", "l", "l">>
      [] kind = "zeroPrice"     -> <<"$", "0">>
      [] kind = "negativePrice" -> <<"-", "$", "5">>
      [] OTHER                  -> <<"$", "5">>

LinkOf(n, i) == "/item/" \o ToString(n) \o "-" \o ToString(i)

\* The candidate of kind `kind` served at position i of page n.
Candidate(kind, n, i) ==
    [h2    |-> CASE kind = "noTitle" -> <<>>
                 [] kind = "placeholderTitle" -> <<"N/A">>
                 [] OTHER -> <<"Item " \o ToString(i)>>,
     price |-> IF kind = "noPrice" THEN <<>> ELSE <<PriceTextOf(kind)>>,
     a     |-> CASE kind = "noAnchor" -> <<>>
                 [] kind = "noHref" -> << <<>> >>
                 [] kind = "emptyHref" -> << <<"">> >>
                 [] OTHER -> << <<LinkOf(n, i)>> >>]

\* str.replace(ch, ""): every occurrence of ch removed.
Replace(chars, ch) == SelectSeq(chars, LAMBDA c : c # ch)

DigitValue(c) ==
    CASE c = "0" -> 0 [] c = "1" -> 1 [] c = "2" -> 2 [] c = "3" -> 3 [] c = "4" -> 4
      [] c = "5" -> 5 [] c = "6" -> 6 [] c = "7" -> 7 [] c = "8" -> 8 [] c = "9" -> 9
      [] OTHER -> -1

RECURSIVE DigitsValue(_, _)
\* The value of a digit string, or -1 when a character is no digit.
DigitsValue(chars, acc) ==
    IF chars = <<>> THEN acc
    ELSE IF DigitValue(Head(chars)) < 0 THEN -1
    ELSE DigitsValue(Tail(chars), acc * 10 + DigitValue(Head(chars)))

\* float(text) on the texts the model serves (an optional sign, then digits):
\* [ok, value]; ok = FALSE is ValueError.
Float(chars) ==
    LET neg == chars # <<>> /\ Head(chars) = "-"
        pos == chars # <<>> /\ Head(chars) = "+"
        digits == IF neg \/ pos THEN Tail(chars) ELSE chars
        v == IF digits = <<>> THEN -1 ELSE DigitsValue(digits, 0)
    IN  IF v < 0 THEN [ok |-> FALSE, value |-> 0]
        ELSE [ok |-> TRUE, value |-> IF neg THEN 0 - v ELSE v]

\* ParseListing with "price >= 0" for "price > 0".
ParseListingZeroPriceAccepted(listing) ==
    LET title == IF listing.h2 # <<>> THEN listing.h2[1] ELSE "N/A"
    IN  IF listing.price = <<>> THEN [exc |-> "AttributeError", append |-> <<>>]
        ELSE LET price == Float(Replace(Replace(listing.price[1], "$"), ","))
             IN  IF ~price.ok THEN [exc |-> "ValueError", append |-> <<>>]
                 ELSE IF listing.a = <<>> THEN [exc |-> "TypeError", append |-> <<>>]
                 ELSE IF listing.a[1] = <<>> THEN [exc |-> "KeyError", append |-> <<>>]
                 ELSE LET link == listing.a[1][1]
                      IN  [exc |-> "none",
                           append |-> IF title # "N/A" /\ price.value >= 0 /\ link # ""
                                      THEN << [title |-> title, price |-> price.value, link |-> link] >>
                                      ELSE <<>>]

\* The body of the inner try of scrape_page for one listing: the exception it
\* raises ("none" if none), and the tuple it appends, if it appends one.
ParseListing(listing) ==
    LET title == IF listing.h2 # <<>> THEN listing.h2[1] ELSE "N/A"
    IN  IF listing.price = <<>> THEN [exc |-> "AttributeError", append |-> <<>>]
        ELSE LET price == Float(Replace(Replace(listing.price[1], "$"), ","))
             IN  IF ~price.ok THEN [exc |-> "ValueError", append |-> <<>>]
                 ELSE IF listing.a = <<>> THEN [exc |-> "TypeError", append |-> <<>>]
                 ELSE IF listing.a[1] = <<>> THEN [exc |-> "KeyError", append |-> <<>>]
                 ELSE LET link == listing.a[1][1]
                      IN  [exc |-> "none",
                           append |-> IF title # "N/A" /\ price.value > 0 /\ link # ""
                                      THEN << [title |-> title, price |-> price.value, link |-> link] >>
                                      ELSE <<>>]

\* except (AttributeError, ValueError)
IsParseError(exc) == exc \in {"AttributeError", "ValueError"}

RECURSIVE ListingLoop(_, _)
\* The for loop of scrape_page: [items, exc], exc the exception that left it.
ListingLoop(listings, items) ==
    IF listings = <<>> THEN [items |-> items, exc |-> "none"]
    ELSE LET r == ParseListing(Head(listings))
         IN  IF r.exc = "none" THEN ListingLoop(Tail(listings), items \o r.append)
             ELSE IF IsParseError(r.exc) THEN ListingLoop(Tail(listings), items)
             ELSE [items |-> items, exc |-> r.exc]

\* What requests.get / raise_for_status can do.
FetchOutcomes == {"ok", "ConnectionError", "Timeout", "HTTPError"}
\* except requests.exceptions.RequestException
IsRequestException(exc) == exc \in {"ConnectionError", "Timeout", "HTTPError"}

\* scrape_page(url): [items, exc]; exc # "none" is an exception that leaves it.
ScrapePage(fetch, markup) ==
    IF IsRequestException(fetch) THEN [items |-> <<>>, exc |-> "none"]
    ELSE ListingLoop(markup, <<>>)

PageUrl(n) == base_url \o "/page/" \o ToString(n)

\* What the claims call a well-formed candidate, read off the markup: a title
\* that is not the placeholder, a price text that is a positive number, an
\* anchor with a non-empty href.
WellFormed(c) ==
    /\ c.h2 # <<>> /\ c.h2[1] # "N/A"
    /\ c.price # <<>>
    /\ LET p == Float(Replace(Replace(c.price[1], "$"), ",")) IN p.ok /\ p.value > 0
    /\ c.a # <<>> /\ c.a[1] # <<>> /\ c.a[1][1] # ""

ListingOf(c) ==
    [title |-> c.h2[1],
     price |-> Float(Replace(Replace(c.price[1], "$"), ",")).value,
     link  |-> c.a[1][1]]

RECURSIVE WellFormedListings(_)
WellFormedListings(markup) ==
    IF markup = <<>> THEN <<>>
    ELSE (IF WellFormed(Head(markup)) THEN <<ListingOf(Head(markup))>> ELSE <<>>)
         \o WellFormedListings(Tail(markup))

Markup(kinds, n) == [i \in 1..Len(kinds) |-> Candidate(kinds[i], n, i)]

NoCall == [fetch |-> "none", markup |-> <<>>, items |-> <<>>, exc |-> "none"]

NewRun == [before |-> table, inserts |-> 0, emptyInserts |-> 0, insertRet |-> "none",
           expected |-> <<>>, dropped |-> 0]

StartRun(who, start_page, end_page) ==
    /\ pc = "idle"
    /\ runs < MaxRuns
    /\ runs' = runs + 1
    /\ caller' = who
    /\ range' = [start |-> start_page, end |-> end_page]
    /\ page_num' = start_page
    /\ all_items' = <<>>
    /\ events' = <<>>
    /\ last' = NoCall
    /\ report' = "none"
    /\ run' = NewRun
    /\ pc' = "loop"
    /\ UNCHANGED <<storeVars, analyzeVars>>

\* The "Scrape Marketplace" button: handle_scrape starts scrape_multiple_pages().
HandleScrape == StartRun("gui", DefaultStartPage, DefaultEndPage)

\* scrape_multiple_pages(start_page, end_page) called directly.
ScrapeMultiplePages(start_page, end_page) == StartRun("api", start_page, end_page)

\* One iteration of the loop up to the sleep: url, scrape_page(url), extend.
\* An exception scrape_page lets through leaves scrape_multiple_pages too;
\* handle_scrape catches it (except Exception) and shows the error box.
ScrapePageStep(fetch, kinds) ==
    /\ pc = "loop"
    /\ page_num <= range.end
    /\ fetch # "ok" => kinds = <<>>
    /\ LET markup == Markup(kinds, page_num)
           r == ScrapePage(fetch, markup)
           wf == IF fetch = "ok" THEN WellFormedListings(markup) ELSE <<>>
       IN  /\ events' = Append(events, [op |-> "fetch", url |-> PageUrl(page_num), n |-> page_num])
           /\ run' = [run EXCEPT !.expected = @ \o wf,
                                 !.dropped = @ + (IF fetch = "ok" THEN Len(markup) - Len(wf) ELSE 0)]
           /\ IF r.exc = "none"
              THEN /\ all_items' = all_items \o r.items
                   /\ pc' = "sleep"
                   /\ UNCHANGED report
              ELSE /\ pc' = "idle"
                   /\ report' = IF caller = "gui" THEN "exception" ELSE "raised"
                   /\ UNCHANGED all_items
    /\ UNCHANGED <<caller, range, page_num, last, runs, storeVars, analyzeVars>>

\* scrape_page(url) called on its own.
ScrapePageCall(fetch, kinds) ==
    /\ last.fetch = "none"
    /\ fetch # "ok" => kinds = <<>>
    /\ LET markup == Markup(kinds, 1)
           r == ScrapePage(fetch, markup)
       IN  last' = [fetch |-> fetch, markup |-> markup, items |-> r.items, exc |-> r.exc]
    /\ UNCHANGED <<pc, caller, range, page_num, all_items, events, report, run, runs,
                   storeVars, analyzeVars>>

\* time.sleep(1), then the next page.
Sleep ==
    /\ pc = "sleep"
    /\ events' = Append(events, [op |-> "sleep", url |-> "", n |-> SleepSeconds])
    /\ page_num' = page_num + 1
    /\ pc' = "loop"
    /\ UNCHANGED <<caller, range, all_items, last, report, run, runs, storeVars, analyzeVars>>

\* return all_items
Return ==
    /\ pc = "loop"
    /\ page_num > range.end
    /\ IF caller = "gui"
       THEN pc' = "store" /\ UNCHANGED report
       ELSE pc' = "idle" /\ report' = "returned"
    /\ UNCHANGED <<caller, range, page_num, all_items, events, last, run, runs,
                   storeVars, analyzeVars>>

\* ShouldInsert without the "items and" guard.
ShouldInsertAlways(items) == TRUE

\* "if items and ...": insert_assets is called only with a non-empty list.
ShouldInsert(items) == items # <<>>

\* handle_scrape after the scrape: if items and self.db.insert_assets(items).
StoreItems(ioFail) ==
    /\ pc = "store"
    /\ pc' = "idle"
    /\ IF ~ShouldInsert(all_items)
       THEN /\ ioFail = FALSE
            /\ report' = "error"
            /\ UNCHANGED <<table, durable, run>>
       ELSE LET o == InsertAssetsOutcome(table, durable, all_items, ioFail)
            IN  /\ table' = o.table
                /\ durable' = o.durable
                /\ run' = [run EXCEPT !.inserts = @ + 1,
                                      !.emptyInserts = @ + (IF all_items = <<>> THEN 1 ELSE 0),
                                      !.insertRet = o.ret]
                /\ report' = CASE o.ret = "True" -> "success"
                               [] o.ret = "False" -> "error"
                               [] OTHER -> "exception"
    /\ UNCHANGED <<call, accepted, calls, caller, range, page_num, all_items, events, last, runs,
                   analyzeVars>>

\* --------------------------------------------------------------- AssetAnalyzer

\* Prices of the snapshots analysed, and the percentiles asked for.
Prices == {10, 20, 30, 40, 100}
Percentiles == {0, 25, 50, 100}
DefaultPercentile == 25

\* A snapshot as get_all_assets returns it: rows in id order.
Snapshot(prices) == [i \in 1..Len(prices) |-> [id |-> i, price |-> prices[i]]]

RECURSIVE SumPrices(_)
SumPrices(rows) == IF rows = <<>> THEN 0 ELSE Head(rows).price + SumPrices(Tail(rows))

\* s with x inserted before the first element greater than x (after its equals).
RECURSIVE InsertAscending(_, _)
InsertAscending(s, x) ==
    IF s = <<>> THEN <<x>>
    ELSE IF x < Head(s) THEN <<x>> \o s
    ELSE <<Head(s)>> \o InsertAscending(Tail(s), x)

RECURSIVE SortedAscending(_)
SortedAscending(s) ==
    IF s = <<>> THEN <<>> ELSE InsertAscending(SortedAscending(Tail(s)), Head(s))

PricesOf(rows) == [i \in 1..Len(rows) |-> rows[i].price]

\* Quantile100 with interpolation "lower": the neighbour below, not interpolated.
QuantileLower100(rows, pct) ==
    LET s == SortedAscending(PricesOf(rows))
        n == Len(s)
        lo == ((n - 1) * pct) \div 100
    IN  IF lo + 1 >= n THEN 100 * s[n] ELSE 100 * s[lo + 1]

\* 100 * df["price"].quantile(pct / 100), interpolation "linear" (the default):
\* the value at position (n - 1) * pct / 100 of the sorted prices, interpolated
\* between its two neighbours.
Quantile100(rows, pct) ==
    LET s == SortedAscending(PricesOf(rows))
        n == Len(s)
        pos100 == (n - 1) * pct
        lo == pos100 \div 100
        frac100 == pos100 % 100
    IN  IF lo + 1 >= n THEN 100 * s[n]
        ELSE 100 * s[lo + 1] + frac100 * (s[lo + 2] - s[lo + 1])

\* BelowThreshold with "<=" for "<".
AtOrBelowThreshold(rows, threshold100) ==
    SelectSeq(rows, LAMBDA r : 100 * r.price <= threshold100)

\* df[df["price"] < price_threshold]
BelowThreshold(rows, threshold100) == SelectSeq(rows, LAMBDA r : 100 * r.price < threshold100)

RECURSIVE Gcd(_, _)
Gcd(a, b) == IF b = 0 THEN a ELSE Gcd(b, a % b)
Abs(x) == IF x < 0 THEN 0 - x ELSE x

\* The quotient num/den (den > 0) in lowest terms.
Quotient(num, den) ==
    LET g == Gcd(Abs(num), den) IN [num |-> num \div g, den |-> den \div g]

\* (df["price"].mean() - price) / df["price"].mean() * 100, df the full frame:
\* with mean = sum/n this is (sum - n * price) * 100 / sum.
DiscountPercent(rows, price) ==
    Quotient((SumPrices(rows) - Len(rows) * price) * 100, SumPrices(rows))

QLess(a, b) == a.num * b.den < b.num * a.den

\* The copy with its discount_percent column.
Annotated(rows, selected) ==
    [i \in 1..Len(selected) |->
        [id |-> selected[i].id, price |-> selected[i].price,
         discount_percent |-> DiscountPercent(rows, selected[i].price)]]

\* One insertion of the ascending sort by discount_percent.  A stable sort puts
\* a row after the rows of equal key already placed; the default kind of
\* sort_values, "quicksort", promises no order among equal keys, and the other
\* order it can leave them in is the reverse.
RECURSIVE InsertByDiscount(_, _, _)
InsertByDiscount(s, x, kind) ==
    IF s = <<>> THEN <<x>>
    ELSE IF QLess(x.discount_percent, Head(s).discount_percent)
            \/ (kind = "unstable" /\ x.discount_percent = Head(s).discount_percent)
         THEN <<x>> \o s
    ELSE <<Head(s)>> \o InsertByDiscount(Tail(s), x, kind)

RECURSIVE ArgSortAscending(_, _)
ArgSortAscending(s, kind) ==
    IF s = <<>> THEN <<>>
    ELSE InsertByDiscount(ArgSortAscending(SubSeq(s, 1, Len(s) - 1), kind), s[Len(s)], kind)

Reversed(s) == [i \in 1..Len(s) |-> s[Len(s) + 1 - i]]

\* sort_values("discount_percent", ascending=False): the rows reversed, sorted
\* ascending, and the outcome reversed.
SortValuesDescending(rows, kind) == Reversed(ArgSortAscending(Reversed(rows), kind))

\* identify_undervalued_assets(df, threshold_percentile)
IdentifyUndervalued(rows, pct, kind) ==
    IF rows = <<>> THEN <<>>
    ELSE SortValuesDescending(
             Annotated(rows, BelowThreshold(rows, Quantile100(rows, pct))), kind)

\* FrameAfterCall when the column is added to the frame passed in.
FrameAnnotatedInPlace(rows) ==
    [i \in 1..Len(rows) |->
        [id |-> rows[i].id, price |-> rows[i].price,
         discount_percent |-> DiscountPercent(rows, rows[i].price)]]

\* The frame the caller passed, after the call: the column is added to a copy
\* (.copy()), and sort_values returns a new frame.
FrameAfterCall(rows) == rows

IdentifyUndervaluedAssets ==
    /\ Len(results) < MaxAnalyses
    /\ results' = Append(results, IdentifyUndervalued(df, percentile, sortKind))
    /\ df' = FrameAfterCall(df)
    /\ UNCHANGED <<df0, percentile, sortKind, storeVars, scrapeVars>>

\* ------------------------------------------------------------- specifications

StoreInit ==
    table = <<>> /\ durable = <<>> /\ call = NoInsert /\ accepted = <<>> /\ calls = 0

ScrapeInit ==
    /\ pc = "idle" /\ caller = "none" /\ range = [start |-> 1, end |-> 0]
    /\ page_num = 1 /\ all_items = <<>> /\ events = <<>> /\ last = NoCall
    /\ report = "none" /\ runs = 0
    /\ run = [before |-> <<>>, inserts |-> 0, emptyInserts |-> 0, insertRet |-> "none",
              expected |-> <<>>, dropped |-> 0]

AnalyzeIdle ==
    /\ df = <<>> /\ df0 = <<>> /\ percentile = DefaultPercentile
    /\ sortKind = "stable" /\ results = <<>>

\* DatabaseManager after __init__ (setup_database has created the table), then
\* any calls of insert_assets.
InitStore == StoreInit /\ ScrapeInit /\ AnalyzeIdle

BatchKinds == SeqsUpTo(RowKinds, MaxBatch)

NextStore == \E kinds \in BatchKinds, ioFail \in BOOLEAN : InsertAssets(kinds, ioFail)

SpecStore == InitStore /\ [][NextStore]_vars

\* The pages the environment serves: candidate kinds by position.
AnyPage == SeqsUpTo(CandidateKinds, MaxPerPage)

\* scrape_page called once on any page.
InitPage == StoreInit /\ ScrapeInit /\ AnalyzeIdle

NextPage == \E fetch \in FetchOutcomes, kinds \in AnyPage : ScrapePageCall(fetch, kinds)

SpecPage == InitPage /\ [][NextPage]_vars

\* The pages served during a run over several pages.
ServedPages ==
    {<<>>, <<"ok">>, <<"ok", "ok">>, <<"okGrouped">>,
     <<"noPrice", "ok">>, <<"ok", "zeroPrice">>, <<"notANumber", "ok">>,
     <<"ok", "negativePrice">>, <<"placeholderTitle", "ok">>, <<"noTitle">>,
     <<"emptyHref", "ok">>, <<"noAnchor", "ok">>, <<"ok", "noHref">>}

\* scrape_multiple_pages called with a range of the caller's choice.
InitRange == StoreInit /\ ScrapeInit /\ AnalyzeIdle

NextRange ==
    \/ \E start_page \in 1..MaxPage, end_page \in 0..MaxPage :
           ScrapeMultiplePages(start_page, end_page)
    \/ \E fetch \in FetchOutcomes, kinds \in ServedPages : ScrapePageStep(fetch, kinds)
    \/ Sleep
    \/ Return

SpecRange == InitRange /\ [][NextRange]_vars

\* ApplicationGUI after __init__, the table empty or holding a row of an earlier
\* session, then presses of the "Scrape Marketplace" button.
EarlierRow == [id |-> 1, title |-> "Chair", price |-> 40, link |-> "/item/0-1"]

InitScrape ==
    /\ table \in {<<>>, <<EarlierRow>>} /\ durable = table
    /\ call = NoInsert /\ accepted = <<>> /\ calls = 0
    /\ ScrapeInit /\ AnalyzeIdle

NextScrape ==
    \/ HandleScrape
    \/ \E fetch \in FetchOutcomes, kinds \in ServedPages : ScrapePageStep(fetch, kinds)
    \/ Sleep
    \/ Return
    \/ \E ioFail \in BOOLEAN : StoreItems(ioFail)

SpecScrape == InitScrape /\ [][NextScrape]_vars

\* identify_undervalued_assets called, and called again, on a snapshot.
InitAnalyze ==
    /\ StoreInit /\ ScrapeInit
    /\ \E prices \in SeqsUpTo(Prices, MaxRows) : df = Snapshot(prices) /\ df0 = Snapshot(prices)
    /\ percentile \in Percentiles
    /\ sortKind \in {"stable", "unstable"}
    /\ results = <<>>

NextAnalyze == IdentifyUndervaluedAssets

SpecAnalyze == InitAnalyze /\ [][NextAnalyze]_vars

\* ===================================================================== claims

StripId(row) == [title |-> row.title, price |-> row.price, link |-> row.link]
StripIds(rows) == [i \in 1..Len(rows) |-> StripId(rows[i])]

\* ---- SpecStore

\* A row the store cannot take.
RowFails(row) == row.title = Null \/ row.title = Surrogate
BatchFails(c) == c.ioFail \/ \E i \in 1..Len(c.batch) : RowFails(c.batch[i])

\* C1: insert_assets is atomic: if any row of the batch fails (or the commit
\* does), the call fails and the store holds exactly the rows it held before
\* the call, no prefix of the batch staying behind; otherwise it returns True
\* and the whole batch is stored.  A call that raises counts as failed here,
\* although the claim has it return False.
C1_InsertBatchAtomic ==
    call.ret # "none" =>
        IF BatchFails(call)
        THEN call.ret # "True" /\ GetAllAssets = call.before /\ durable = call.before
        ELSE call.ret = "True" /\ StripIds(GetAllAssets) = StripIds(call.before) \o call.batch

\* C2: after any sequence of insert_assets calls, get_all_assets returns exactly
\* the rows of the batches that returned True, one per listing, in call order,
\* with ids strictly increasing (hence pairwise distinct).
C2_SnapshotIsAcceptedBatches ==
    /\ StripIds(GetAllAssets) = accepted
    /\ \A i, j \in 1..Len(GetAllAssets) : i < j => GetAllAssets[i].id < GetAllAssets[j].id

\* ---- SpecPage

\* C3: on a fetched page scrape_page never raises and returns exactly the
\* well-formed candidates, in page order, whatever the malformed ones are.
C3_ExtractSkipsMalformed ==
    last.fetch = "ok" => last.exc = "none" /\ last.items = WellFormedListings(last.markup)

\* ---- SpecRange

RunEnded == pc = "idle" /\ runs > 0

RECURSIVE ExpectedEvents(_, _)
\* For n = from .. to: the fetch of base + "/page/" + n, then the pause.
ExpectedEvents(from, to) ==
    IF from > to THEN <<>>
    ELSE << [op |-> "fetch", url |-> base_url \o "/page/" \o ToString(from), n |-> from],
            [op |-> "sleep", url |-> "", n |-> 1] >> \o ExpectedEvents(from + 1, to)

IsPrefix(s, t) == Len(s) <= Len(t) /\ SubSeq(t, 1, Len(s)) = s

\* C4: scrape_multiple_pages is fail-soft per page: whichever pages fail at
\* network level, the call returns (does not raise), has fetched every page of
\* the range, and returns the listings of the successful pages in page order.
C4_FetchRangeFailSoft ==
    RunEnded =>
        /\ report = "returned"
        /\ all_items = run.expected
        /\ \A n \in range.start..range.end :
               \E k \in 1..Len(events) : events[k].op = "fetch" /\ events[k].n = n

\* C9: scrape_multiple_pages fetches base + "/page/" + n once for each n of
\* [start, end], in increasing order, one after the other, a pause of one time
\* unit after each; nothing is fetched when start > end.
C9_FetchOrder ==
    /\ IsPrefix(events, ExpectedEvents(range.start, range.end))
    /\ RunEnded => events = ExpectedEvents(range.start, range.end)
                   /\ (range.start > range.end => all_items = <<>>)

\* ---- SpecScrape

ValidListing(x) == x.title # "N/A" /\ x.price > 0 /\ x.link # ""

\* C5: every listing scrape_multiple_pages has collected, and every row of the
\* store, has a title that is not the placeholder, a positive price and a
\* non-empty link.
C5_OnlyValidListings ==
    /\ \A i \in 1..Len(all_items) : ValidListing(all_items[i])
    /\ \A i \in 1..Len(table) : ValidListing(table[i])
    /\ \A i \in 1..Len(durable) : ValidListing(durable[i])

\* A run that stored its listings although the pages held candidates to drop.
C5_Witness == report = "success" /\ run.dropped > 0 /\ Len(table) > Len(run.before)

Ids(rows) == {rows[i].id : i \in 1..Len(rows)}

\* The rows of the snapshot priced strictly below threshold100 / 100.
Below(threshold100) == {i \in 1..Len(df0) : 100 * df0[i].price < threshold100}

\* discount_percent * mean = (mean - price) * 100, mean = sum / n of the whole snapshot.
DiscountIsRight(r, sum) ==
    r.discount_percent.num * sum = (sum - Len(df0) * r.price) * 100 * r.discount_percent.den

SelectionAndDiscount(res) ==
    LET selected == Below(Quantile100(df0, percentile))
        sum == SumPrices(df0)
    IN  /\ Ids(res) = {df0[i].id : i \in selected}
        /\ Len(res) = Cardinality(selected)
        /\ \A k \in 1..Len(res) :
               res[k].price = df0[res[k].id].price /\ DiscountIsRight(res[k], sum)

Descending(res) ==
    \A j, k \in 1..Len(res) :
        j < k => ~QLess(res[j].discount_percent, res[k].discount_percent)

TiesInInputOrder(res) ==
    \A j, k \in 1..Len(res) :
        (j < k /\ res[j].discount_percent = res[k].discount_percent) => res[j].id < res[k].id

\* The result of the call just made (every result is, in the state after its call).
LatestResult == results[Len(results)]

\* C6 as stated: the result is exactly the assets priced below the threshold,
\* each with its discount against the mean of the whole snapshot, by discount
\* descending, equal discounts in input order; empty for an empty snapshot.
C6_AsStated ==
    results # <<>> =>
        /\ df0 = <<>> => LatestResult = <<>>
        /\ df0 # <<>> => /\ SelectionAndDiscount(LatestResult)
                         /\ Descending(LatestResult)
                         /\ TiesInInputOrder(LatestResult)

\* C6 amended: as above, without the order among equal discounts.
C6_SelectedDiscountedDescending ==
    results # <<>> =>
        /\ df0 = <<>> => LatestResult = <<>>
        /\ df0 # <<>> => SelectionAndDiscount(LatestResult) /\ Descending(LatestResult)

\* A result with two assets of equal discount, and others besides.
C6_Witness ==
    /\ Len(results) > 0
    /\ Len(results[1]) >= 2
    /\ results[1][1].discount_percent = results[1][2].discount_percent
    /\ Len(results[1]) < Len(df0)

\* The k-th smallest price of the snapshot.
KthSmallest(k) ==
    CHOOSE v \in {df0[i].price : i \in 1..Len(df0)} :
        /\ Cardinality({i \in 1..Len(df0) : df0[i].price < v}) < k
        /\ Cardinality({i \in 1..Len(df0) : df0[i].price <= v}) >= k

\* 100 * (s[floor(h)] + (h - floor(h)) * (s[floor(h)+1] - s[floor(h)])), h = (n-1) * percentile / 100.
InterpolatedPercentile100 ==
    LET n == Len(df0)
        h100 == (n - 1) * percentile
        f == h100 \div 100
    IN  IF f = n - 1 THEN 100 * KthSmallest(n)
        ELSE LET below == KthSmallest(f + 1)
             IN  100 * below + (h100 - 100 * f) * (KthSmallest(f + 2) - below)

\* C7: the threshold the selection uses is the linear-interpolation percentile
\* of the prices; for prices 10, 20, 30, 40, 100 and percentile 25 it is 20 and
\* the result is the asset priced 10 alone.
C7_ThresholdIsInterpolatedPercentile ==
    (results # <<>> /\ df0 # <<>>) =>
        LET threshold100 == InterpolatedPercentile100
        IN  /\ Ids(LatestResult) = {df0[i].id : i \in Below(threshold100)}
            /\ (PricesOf(df0) = <<10, 20, 30, 40, 100>> /\ percentile = 25) =>
                   /\ threshold100 = 2000
                   /\ Len(LatestResult) = 1 /\ LatestResult[1].price = 10

\* The example of the claim, analysed.
C7_Witness ==
    Len(results) > 0 /\ PricesOf(df0) = <<10, 20, 30, 40, 100>> /\ percentile = 25

====
